---- MODULE Spec2Model ----
(***************************************************************************)
(* Division by invariant multiplication (src/z3/inv.py): the search for a  *)
(* (multiplier, shift) pair with z3, the partitioned parallel search and   *)
(* the verification of a candidate.                                        *)
(*                                                                         *)
(* z3 is modelled by what it decides: a query is a set of constraints over *)
(* fixed-width bit-vectors, its answer is sat with one of the satisfying   *)
(* assignments, unsat when there is none, or unknown (resource limit).     *)
(* Python integers given to z3 are coerced to the bit-vector sort of the   *)
(* other operand (reduced modulo 2^bits); <, <=, >, >= on bit-vectors are  *)
(* the signed comparisons, ULE / ULT the unsigned ones.                    *)
(***************************************************************************)
EXTENDS Integers, Sequences, FiniteSets, TLC

VARIABLES
    pc,        \* where the program is: __main__, a caller of the API, find_parallel
    solution,  \* the module global `solution` (inv.py:122)
    call,      \* the last completed call of find_constants / check_solution
    div,       \* find_parallel: argument div
    bits,      \* find_parallel: argument bits
    cpus,      \* find_parallel: argument cpus
    i,         \* find_parallel: loop variable of the range loop
    ranges,    \* find_parallel: the list `ranges`
    taken,     \* Pool.map: number of chunks of `ranges` handed to workers so far
    running,   \* Pool.map: the chunks in the hands of a worker (at most cpus)
    results,   \* Pool.map: for every chunk, the list of its results
    calls,     \* for every chunk, the number of oracle queries of each range
    output,    \* find_parallel: the returned list
    oracle,    \* range with a satisfiable query -> the model z3 returns for it
    timeouts   \* the partitions on which the oracle gives up (answers unknown)

vars == <<pc, solution, call, div, bits, cpus, i, ranges, taken, running,
          results, calls, output, oracle, timeouts>>

----------------------------------------------------------------------------
(* Bounds of the model.                                                    *)

\* widths of the calls of find_constants / check_solution: 1..MaxBits
MaxBits == 8
\* widths of find_parallel in the range-loop specification: MinRangeBits..MaxRangeBits
MinRangeBits == 6
MaxRangeBits == 12
\* worker counts of find_parallel in the range-loop specification: 1..MaxRangeCpus
MaxRangeCpus == 3
\* worker counts of find_parallel in the pool specification: 1..MaxCpus
MaxCpus == 2
\* widths of find_parallel in the pool specification: MinPoolBits..MaxPoolBits
MinPoolBits == 8
MaxPoolBits == 11
\* the oracle may give up on partitions 0..MaxTimeoutPart
MaxTimeoutPart == 1

----------------------------------------------------------------------------
(* Python values.                                                          *)

None == [kind |-> "None"]
Unset == [kind |-> "unset"]      \* a global name that was never assigned
Dict(a, s) == [kind |-> "dict", multiplier |-> a, shift |-> s]
Truthy(v) == v.kind = "dict"     \* a non-empty dict is true, None is false

----------------------------------------------------------------------------
(* Bit-vector arithmetic as z3 defines it.                                 *)

\* BitVecVal(v, w): a Python integer as a w-bit value
BitVecVal(v, w) == v % (2 ^ w)

\* the signed reading of a w-bit value
ToSigned(v, w) == IF v >= 2 ^ (w - 1) THEN v - 2 ^ w ELSE v

\* UDiv(x, d): unsigned division, all ones when d = 0
UDiv(x, d, w) == IF d = 0 THEN 2 ^ w - 1 ELSE x \div d

\* LShR(v, sh) on w-bit values
LShR(v, sh, w) == IF sh >= w THEN 0 ELSE v \div (2 ^ sh)

\* Extract(w - 1, 0, LShR(ZeroExt(w, a) * ZeroExt(w, x), ZeroExt(w, shift)))
MulShift(a, x, shift, w) ==
    LShR((a * x) % (2 ^ (2 * w)), shift, 2 * w) % (2 ^ w)

\* the body of the quantified formula of find_constants, d = BitVecVal(div, bits)
Equality(x, a, shift, d, w) == UDiv(x, d, w) = MulShift(a, x, shift, w)

----------------------------------------------------------------------------
(* find_constants (inv.py:10-40).                                          *)

\* range=None
NoRange == <<>>

\* s.add(shift >= 0); s.add(shift < 2*bits).  >= and < on a BitVecRef are the
\* signed comparisons and 2*bits is coerced to BitVecVal(2*bits, bits): the
\* w-bit values s with 0 <= ToSigned(s) < ToSigned(BitVecVal(2w, w)), which are
\* their own signed readings
AdmittedShifts(w) == 0 .. ToSigned(BitVecVal(2 * w, w), w) - 1

\* s.add(ULE(min_a, a)); s.add(ULT(a, max_a)).  The comparisons are unsigned,
\* min_a and max_a are coerced to BitVecVal(., bits): the w-bit values a with
\* BitVecVal(min_a, w) <= a < BitVecVal(max_a, w); every value without a range
AdmittedMultipliers(w, range) ==
    IF range = NoRange
    THEN 0 .. 2 ^ w - 1
    ELSE BitVecVal(range[1], w) .. BitVecVal(range[2], w) - 1

\* the assignments <<a, shift>> that satisfy every constraint added to the
\* solver, ForAll([x], equality) included
Models(divisor, w, range) ==
    {m \in AdmittedMultipliers(w, range) \X AdmittedShifts(w) :
        \A x \in 0 .. 2 ^ w - 1 :
            Equality(x, m[1], m[2], BitVecVal(divisor, w), w)}

\* s.check(): unknown is always possible; else sat with one model, or unsat
CheckAnswers(M) ==
    {[result |-> "unknown", model |-> <<>>]}
    \cup (IF M = {}
          THEN {[result |-> "unsat", model |-> <<>>]}
          ELSE {[result |-> "sat", model |-> m] : m \in M})

\* lines 32-40: the dict of the model when sat, None otherwise
FindConstantsReturn(answer) ==
    IF answer.result = "sat"
    THEN Dict(answer.model[1], answer.model[2])
    ELSE None

\* the record of a completed call of find_constants(divisor, w, range)
FindConstantsCall(divisor, w, range, answer) ==
    [fn |-> "find_constants", sol |-> None, div |-> divisor, bits |-> w,
     range |-> range, global |-> None, queries |-> 1, answer |-> answer,
     ret |-> FindConstantsReturn(answer), raised |-> "", report |-> <<>>]

----------------------------------------------------------------------------
(* check_solution (inv.py:48-73).                                          *)

PyBool(b) == [kind |-> "bool", value |-> b]

\* the x with UDiv(x, div) != Extract(...) for the constants a and shift
Counterexamples(a, shift, d, w) ==
    {x \in 0 .. 2 ^ w - 1 : UDiv(x, d, w) # MulShift(a, x, shift, w)}

\* line 68: (x * sol['multiplier'] & ((1 << bits) - 1)) >> sol['shift'];
\* * binds tighter than &, the parentheses close before >>
ReportedComputed(x, sol, w) ==
    ((x * sol.multiplier) % (2 ^ w)) \div (2 ^ sol.shift)

\* line 69: x // divisor
ReportedExpected(x, divisor) == x \div divisor

\* lines 63-73: the value returned for the oracle's answer
CheckSolutionReturn(answer) ==
    IF answer.result = "unsat" THEN PyBool(TRUE) ELSE PyBool(FALSE)

\* the constants of the query: lines 53-54 read the module global `solution`,
\* not the parameter sol
QueryCandidate(sol, global) == global

\* the record of a completed call of check_solution(sol, divisor, w) made
\* while the module global `solution` is `global`
CheckSolutionCall(sol, divisor, w, global, answer) ==
    LET base == [fn |-> "check_solution", sol |-> sol, div |-> divisor,
                 bits |-> w, range |-> NoRange, global |-> global,
                 queries |-> 0,
                 answer |-> [result |-> "none", model |-> <<>>],
                 ret |-> None, raised |-> "", report |-> <<>>]
        cand == QueryCandidate(sol, global)
    IN  IF cand.kind = "unset"
        THEN [base EXCEPT !.raised = "NameError"]
        ELSE IF cand.kind = "None"
        THEN [base EXCEPT !.raised = "TypeError"]
        ELSE IF answer.result = "sat" /\ divisor = 0
        THEN [base EXCEPT !.queries = 1, !.answer = answer,
                          !.raised = "ZeroDivisionError"]
        ELSE IF answer.result = "sat"
        THEN [base EXCEPT !.queries = 1, !.answer = answer,
                          !.ret = CheckSolutionReturn(answer),
                          !.report = <<answer.model[1],
                                       ReportedExpected(answer.model[1], divisor),
                                       ReportedComputed(answer.model[1], sol, w)>>]
        ELSE [base EXCEPT !.queries = 1, !.answer = answer,
                          !.ret = CheckSolutionReturn(answer)]

\* the answers s.check() can give in check_solution
CheckSolutionAnswers(sol, divisor, w, global) ==
    LET cand == QueryCandidate(sol, global)
    IN  IF cand.kind # "dict"
        THEN {[result |-> "none", model |-> <<>>]}
        ELSE CheckAnswers({<<x>> : x \in Counterexamples(
                 BitVecVal(cand.multiplier, w), BitVecVal(cand.shift, w),
                 BitVecVal(divisor, w), w)})

----------------------------------------------------------------------------
(* The inputs the callers draw from.                                       *)

\* value = 9 (inv.py:117)
MainValue == 9

\* divisors given to find_constants, check_solution and find_parallel
Divisors(w) == {0, 1, 3, 9, 2 ^ w, 2 ^ w + 3}

\* range arguments of find_constants: none, or cut at 0, 2^(w-1) and 2^w
RangeInputs(w) ==
    {NoRange} \cup {<<lo, hi>> : lo \in {0, 2 ^ (w - 1)},
                                 hi \in {0, 2 ^ (w - 1), 2 ^ w}}

\* candidates given to check_solution: multiplier in [0, 2^w), shift in [0, 2w)
CandidateInputs(w) ==
    {c \in {Dict(1, 0), Dict(1, 1), Dict(3, 3), Dict(11, 5), Dict(57, 8),
            Dict(57, 9)} :
        c.multiplier < 2 ^ w /\ c.shift < 2 * w}

NoCall ==
    [fn |-> "none", sol |-> None, div |-> 0, bits |-> 0, range |-> NoRange,
     global |-> None, queries |-> 0,
     answer |-> [result |-> "none", model |-> <<>>],
     ret |-> None, raised |-> "", report |-> <<>>]

\* find_parallel has not been called
ParallelIdle ==
    /\ cpus = 0 /\ i = 0 /\ ranges = <<>> /\ taken = 0 /\ running = {}
    /\ results = <<>> /\ calls = <<>> /\ output = <<>> /\ oracle = <<>>
    /\ timeouts = {}

parallelVars ==
    <<cpus, i, ranges, taken, running, results, calls, output, oracle, timeouts>>

----------------------------------------------------------------------------
(* The script (inv.py:116-125) and callers of the two functions.           *)

\* the module is run as a script (pc = "main") or imported (pc = "imported");
\* div and bits hold the script's value and bits (bits = 32 in inv.py:118; the
\* widths 1 .. MaxBits stand for it)
Init ==
    /\ pc \in {"main", "imported"}
    /\ solution = Unset
    /\ call = NoCall
    /\ div = MainValue
    /\ bits \in 1 .. MaxBits
    /\ ParallelIdle

\* line 122: solution = find_constants(value, bits)
MainFind ==
    /\ pc = "main"
    /\ \E answer \in CheckAnswers(Models(div, bits, NoRange)) :
         /\ call' = FindConstantsCall(div, bits, NoRange, answer)
         /\ solution' = FindConstantsReturn(answer)
    /\ pc' = "main_found"
    /\ UNCHANGED <<div, bits, parallelVars>>

\* lines 124-125: if solution: check_solution(solution, value, bits)
MainCheck ==
    /\ pc = "main_found"
    /\ Truthy(solution)
    /\ \E answer \in CheckSolutionAnswers(solution, div, bits, solution) :
         call' = CheckSolutionCall(solution, div, bits, solution, answer)
    /\ pc' = "idle"
    /\ UNCHANGED <<solution, div, bits, parallelVars>>

\* line 124 with a false solution: the script ends
MainSkip ==
    /\ pc = "main_found"
    /\ ~Truthy(solution)
    /\ pc' = "idle"
    /\ UNCHANGED <<solution, call, div, bits, parallelVars>>

\* a caller calls find_constants(d, w, range=r)
CallFindConstants ==
    /\ pc \in {"idle", "imported"}
    /\ \E w \in 1 .. MaxBits :
         \E d \in Divisors(w) :
           \E r \in RangeInputs(w) :
             \E answer \in CheckAnswers(Models(d, w, r)) :
               call' = FindConstantsCall(d, w, r, answer)
    /\ pc' = "returned"
    /\ UNCHANGED <<solution, div, bits, parallelVars>>

\* a caller calls check_solution(sol, d, w)
CallCheckSolution ==
    /\ pc \in {"idle", "imported"}
    /\ \E w \in 1 .. MaxBits :
         \E d \in Divisors(w) :
           \E sol \in CandidateInputs(w) :
             \E answer \in CheckSolutionAnswers(sol, d, w, solution) :
               call' = CheckSolutionCall(sol, d, w, solution, answer)
    /\ pc' = "returned"
    /\ UNCHANGED <<solution, div, bits, parallelVars>>

Next ==
    \/ MainFind
    \/ MainCheck
    \/ MainSkip
    \/ CallFindConstants
    \/ CallCheckSolution

Spec == Init /\ [][Next]_vars

----------------------------------------------------------------------------
(* find_parallel (inv.py:76-91): the range loop.                           *)

\* 1024 of part_num = 1024 * cpus (inv.py:80)
PartsPerCpu == 1024

PartNum(c) == PartsPerCpu * c
MaxValue(w) == 2 ^ w
PartSize(w, c) == MaxValue(w) \div PartNum(c)

\* line 85: start = i * part_size
RangeStart(k, w, c) == k * PartSize(w, c)

\* (mutant of RangeEnd: the last range is not extended to max_value)
RangeEnd_NoRemainder(k, w, c) == (k + 1) * PartSize(w, c)

\* line 86: end = (i + 1) * part_size if i < part_num - 1 else max_value
RangeEnd(k, w, c) ==
    IF k < PartNum(c) - 1 THEN (k + 1) * PartSize(w, c) ELSE MaxValue(w)

\* line 87: the tuple appended for loop index k
RangeArgs(k, d, w, c) == <<d, w, <<RangeStart(k, w, c), RangeEnd(k, w, c)>>>>

\* nothing of the script or of a caller of the two functions has happened
ApiIdle == solution = Unset /\ call = NoCall

apiVars == <<solution, call>>

poolVars == <<taken, running, results, calls, output, oracle, timeouts>>

\* find_parallel(div, bits, cpus) is entered; the loop has not started
InitRanges ==
    /\ pc = "loop"
    /\ div = MainValue
    /\ bits \in MinRangeBits .. MaxRangeBits
    /\ cpus \in 1 .. MaxRangeCpus
    /\ i = 0 /\ ranges = <<>>
    /\ taken = 0 /\ running = {} /\ results = <<>> /\ calls = <<>>
    /\ output = <<>> /\ oracle = <<>> /\ timeouts = {}
    /\ ApiIdle

\* lines 84-87: one iteration of the loop
AppendRange ==
    /\ pc = "loop"
    /\ i < PartNum(cpus)
    /\ ranges' = Append(ranges, RangeArgs(i, div, bits, cpus))
    /\ i' = i + 1
    /\ UNCHANGED <<pc, div, bits, cpus, poolVars, apiVars>>

\* line 84: the loop ends after part_num iterations
LoopExit ==
    /\ pc = "loop"
    /\ i = PartNum(cpus)
    /\ pc' = "map"
    /\ UNCHANGED <<div, bits, cpus, i, ranges, poolVars, apiVars>>

NextRanges ==
    \/ AppendRange
    \/ LoopExit

SpecRanges == InitRanges /\ [][NextRanges]_vars

----------------------------------------------------------------------------
(* find_parallel (inv.py:76-91): Pool(cpus).map(find_constants_2, ranges)  *)
(* and the filter.                                                         *)
(*                                                                         *)
(* Pool.map cuts its list into chunks, hands the chunks to idle workers in *)
(* order, and returns once every chunk is done; a worker runs the calls of *)
(* its chunk one after the other.  The calls share no state, so a chunk is *)
(* one step of its worker, and the workers are interchangeable.  The k-th  *)
(* element of `ranges` is RangeArgs(k - 1, div, bits, cpus); the list      *)
(* itself is built step by step in SpecRanges.  During one search the      *)
(* oracle is a function of its query: it gives up on the partitions in     *)
(* `timeouts`, and `oracle` holds the model it returns for every other     *)
(* range whose query is satisfiable.                                       *)

\* divisors given to find_parallel
PoolDivisors == {2, 9}

\* Pool.map's default chunksize: len(iterable) / (4 * processes), rounded up
ChunkSize(n, c) ==
    IF n % (4 * c) = 0 THEN n \div (4 * c) ELSE n \div (4 * c) + 1

NumChunks(n, c) ==
    IF n % ChunkSize(n, c) = 0
    THEN n \div ChunkSize(n, c)
    ELSE n \div ChunkSize(n, c) + 1

\* the positions in `ranges` of chunk j: from ChunkFirst to ChunkLast
ChunkFirst(j, n, c) == (j - 1) * ChunkSize(n, c) + 1
ChunkLast(j, n, c) == IF j * ChunkSize(n, c) < n THEN j * ChunkSize(n, c) ELSE n
ChunkLen(j, n, c) == ChunkLast(j, n, c) - ChunkFirst(j, n, c) + 1

\* the least / greatest model of a non-empty set of models
PickModel(M, greatest) ==
    IF greatest
    THEN CHOOSE m \in M : \A o \in M :
            o[1] < m[1] \/ (o[1] = m[1] /\ o[2] <= m[2])
    ELSE CHOOSE m \in M : \A o \in M :
            m[1] < o[1] \/ (m[1] = o[1] /\ m[2] <= o[2])

\* s.check() in the call find_constants_2(ranges[k])
OracleAnswer(k) ==
    IF k - 1 \in timeouts
    THEN [result |-> "unknown", model |-> <<>>]
    ELSE IF k \in DOMAIN oracle
    THEN [result |-> "sat", model |-> oracle[k]]
    ELSE [result |-> "unsat", model |-> <<>>]

\* find_constants_2(ranges[k]) (inv.py:43-45)
FindConstants2(k) == FindConstantsReturn(OracleAnswer(k))

\* (mutant of MapDone: the map returns while workers still hold chunks)
MapDone_NoJoin == taken = NumChunks(PartNum(cpus), cpus)

\* pool.map returns: every chunk was handed out and no worker holds one
MapDone ==
    /\ taken = NumChunks(PartNum(cpus), cpus)
    /\ running = {}

\* the list pool.map returns: the chunks' results in the order of `ranges`
RECURSIVE Chain(_, _)
Chain(lists, j) ==
    IF j > Len(lists) THEN <<>> ELSE lists[j] \o Chain(lists, j + 1)

\* line 91: list(filter(lambda x: x, results))
Filter(rs) == SelectSeq(rs, Truthy)

\* find_parallel(div, bits, cpus) is entered
InitParallel ==
    /\ pc = "start"
    /\ div \in PoolDivisors
    /\ bits \in MinPoolBits .. MaxPoolBits
    /\ cpus \in 1 .. MaxCpus
    /\ i = 0 /\ ranges = <<>>
    /\ taken = 0 /\ running = {} /\ results = <<>> /\ calls = <<>>
    /\ output = <<>> /\ oracle = <<>> /\ timeouts = {}
    /\ ApiIdle

\* lines 80-89: the range loop has run and the pool is created; the queries
\* of the search are fixed from here on, and with them what the oracle says:
\* the least or the greatest model of every satisfiable query, and unknown
\* on the first t partitions, t <= MaxTimeoutPart + 1
StartPool ==
    /\ pc = "start"
    /\ LET sat == {k \in 1 .. PartNum(cpus) :
                     Models(div, bits, RangeArgs(k - 1, div, bits, cpus)[3]) # {}}
       IN  \E greatest \in BOOLEAN :
             oracle' = [k \in sat |->
                          PickModel(Models(div, bits,
                                           RangeArgs(k - 1, div, bits, cpus)[3]),
                                    greatest)]
    /\ \E t \in 0 .. MaxTimeoutPart + 1 : timeouts' = 0 .. t - 1
    /\ i' = PartNum(cpus)
    /\ results' = [j \in 1 .. NumChunks(PartNum(cpus), cpus) |-> <<>>]
    /\ calls' = [j \in 1 .. NumChunks(PartNum(cpus), cpus) |->
                   [k \in 1 .. ChunkLen(j, PartNum(cpus), cpus) |-> 0]]
    /\ pc' = "map"
    /\ UNCHANGED <<div, bits, cpus, ranges, taken, running, output, apiVars>>

\* an idle worker is handed the next chunk
TakeChunk ==
    /\ pc = "map"
    /\ taken < NumChunks(PartNum(cpus), cpus)
    /\ Cardinality(running) < cpus
    /\ running' = running \cup {taken + 1}
    /\ taken' = taken + 1
    /\ UNCHANGED <<pc, div, bits, cpus, i, ranges, results, calls, output,
                   oracle, timeouts, apiVars>>

\* a worker runs find_constants_2 on every element of its chunk and hands
\* back the list of the results
RunChunk ==
    /\ pc = "map"
    /\ \E j \in running :
         /\ calls' = [calls EXCEPT ![j] =
                        [k \in 1 .. ChunkLen(j, PartNum(cpus), cpus) |->
                           calls[j][k] + 1]]
         /\ results' = [results EXCEPT ![j] =
                          [k \in 1 .. ChunkLen(j, PartNum(cpus), cpus) |->
                             FindConstants2(ChunkFirst(j, PartNum(cpus), cpus)
                                            + k - 1)]]
         /\ running' = running \ {j}
    /\ UNCHANGED <<pc, div, bits, cpus, i, ranges, taken, output, oracle,
                   timeouts, apiVars>>

\* lines 90-91: pool.map returns and the filtered list is returned
Return ==
    /\ pc = "map"
    /\ MapDone
    /\ output' = Filter(Chain(results, 1))
    /\ pc' = "done"
    /\ UNCHANGED <<div, bits, cpus, i, ranges, taken, running, results, calls,
                   oracle, timeouts, apiVars>>

NextParallel ==
    \/ StartPool
    \/ TakeChunk
    \/ RunChunk
    \/ Return

SpecParallel == InitParallel /\ [][NextParallel]_vars

----------------------------------------------------------------------------
(* Properties of find_constants and check_solution, checked under Spec.    *)

\* the divisors of the data model: 1 < d < 2^w
ValidDivisor(d, w) == 1 < d /\ d < 2 ^ w

\* x // divisor == ((a * x) >> s) mod 2^w for every w-bit x
Correct(a, s, d, w) ==
    \A x \in 0 .. 2 ^ w - 1 : x \div d = ((a * x) \div (2 ^ s)) % (2 ^ w)

\* C1: whenever check_solution(sol, divisor, bits) returns True, the candidate
\* passed as sol satisfies x // divisor == ((sol.multiplier * x) >> sol.shift)
\* mod 2^bits for every x in [0, 2^bits), whatever the module global holds.
C1_AcceptedIsCorrect ==
    (/\ call.fn = "check_solution"
     /\ call.ret = PyBool(TRUE)
     /\ ValidDivisor(call.div, call.bits))
    => Correct(call.sol.multiplier, call.sol.shift, call.div, call.bits)

\* C3: with a bound (min_a, max_a), 0 <= min_a < max_a <= 2^W, the constraints
\* of find_constants admit exactly the multipliers min_a <= a < max_a, and a
\* returned candidate has its multiplier in that range.
C3_RangeAdmitsExactly ==
    (/\ call.fn = "find_constants"
     /\ ValidDivisor(call.div, call.bits)
     /\ call.range # NoRange
     /\ 0 <= call.range[1]
     /\ call.range[1] < call.range[2]
     /\ call.range[2] <= 2 ^ call.bits)
    => /\ AdmittedMultipliers(call.bits, call.range)
            = call.range[1] .. call.range[2] - 1
       /\ call.ret.kind = "dict"
            => call.ret.multiplier \in call.range[1] .. call.range[2] - 1

\* C5: when check_solution rejects the candidate (a, s) with the oracle's
\* counterexample x, the reported values are e = x // divisor and
\* d = ((a * x) >> s) mod 2^W, and e # d.  (Stated for the calls whose sol is
\* the candidate the query was built from.)
C5_RejectReport ==
    (/\ call.fn = "check_solution"
     /\ call.answer.result = "sat"
     /\ ValidDivisor(call.div, call.bits)
     /\ call.sol = call.global)
    => LET x == call.report[1]
           e == call.report[2]
           d == call.report[3]
       IN  /\ e = x \div call.div
           /\ d = ((call.sol.multiplier * x) \div (2 ^ call.sol.shift))
                    % (2 ^ call.bits)
           /\ e # d

\* C6: when the oracle reports unknown, check_solution does not return the
\* Accepted value, and what it returns differs from what it returns when a
\* counterexample was found.
C6_UnknownDistinct ==
    (call.fn = "check_solution" /\ call.answer.result = "unknown")
    => /\ call.ret # PyBool(TRUE)
       /\ call.ret # CheckSolutionReturn([result |-> "sat", model |-> <<0>>])

\* C7: for every width W >= 1 the constraints of find_constants on the shift
\* admit exactly 0 <= s < 2W, and a returned candidate has its shift in
\* [0, 2W) and its multiplier in [0, 2^W).
C7_ShiftDomain ==
    (call.fn = "find_constants" /\ ValidDivisor(call.div, call.bits))
    => /\ AdmittedShifts(call.bits) = 0 .. 2 * call.bits - 1
       /\ call.ret.kind = "dict"
            => /\ call.ret.shift \in 0 .. 2 * call.bits - 1
               /\ call.ret.multiplier \in 0 .. 2 ^ call.bits - 1

\* C8: a call of find_constants whose oracle answer was unknown returns
\* something else than a call whose answer was unsat.
C8_UnknownSurfaced ==
    (call.fn = "find_constants" /\ call.answer.result = "unknown")
    => call.ret # FindConstantsReturn([result |-> "unsat", model |-> <<>>])

\* C9: for a divisor outside (1, 2^W) find_constants and check_solution make no
\* oracle query and produce no candidate and no verdict.
C9_InvalidRejected ==
    (/\ call.fn \in {"find_constants", "check_solution"}
     /\ ~ValidDivisor(call.div, call.bits))
    => /\ call.queries = 0
       /\ call.ret = None

----------------------------------------------------------------------------
(* Properties of the range loop, checked under SpecRanges.                 *)

\* the half-open interval of the k-th entry of ranges
Lo(k) == ranges[k][3][1]
Hi(k) == ranges[k][3][2]

\* C2: the ranges built by find_parallel are pairwise disjoint half-open
\* intervals whose union is exactly [0, 2^W): range 0 starts at 0, each range
\* starts where the previous one ends, the last one ends at 2^W.
C2_PartitionCoverage ==
    pc = "map"
    => /\ Len(ranges) = PartNum(cpus)
       /\ Lo(1) = 0
       /\ Hi(Len(ranges)) = 2 ^ bits
       /\ \A k \in 1 .. Len(ranges) : Lo(k) <= Hi(k)
       /\ \A k \in 1 .. Len(ranges) - 1 : Hi(k) = Lo(k + 1)
       /\ \A j \in 1 .. Len(ranges) : \A k \in j + 1 .. Len(ranges) :
            Hi(j) <= Lo(k) \/ Hi(k) <= Lo(j) \/ Lo(j) = Hi(j) \/ Lo(k) = Hi(k)
       /\ UNION {Lo(k) .. Hi(k) - 1 : k \in 1 .. Len(ranges)} = 0 .. 2 ^ bits - 1

\* the loop has finished for a width with 2^W not divisible by part_count, and
\* the last range absorbed the remainder
C2_Witness ==
    /\ pc = "map"
    /\ MaxValue(bits) % PartNum(cpus) # 0
    /\ Hi(Len(ranges)) - Lo(Len(ranges)) > PartSize(bits, cpus)

----------------------------------------------------------------------------
(* Properties of the partitioned search, checked under SpecParallel.       *)

\* the ranges (positions in `ranges`) whose oracle call is satisfiable
SatParts == {k \in 1 .. PartNum(cpus) : OracleAnswer(k).result = "sat"}

\* C10: every range is submitted to the oracle exactly once, the result is
\* built only after every range's call has finished, and it holds exactly one
\* candidate for each range whose call was satisfiable, in the order of the
\* ranges, and nothing for the ranges that were unsatisfiable or unknown.
C10_MapThenFilter ==
    /\ \A j \in DOMAIN calls : \A k \in DOMAIN calls[j] : calls[j][k] <= 1
    /\ pc # "done" => output = <<>>
    /\ pc = "done"
         => /\ \A j \in DOMAIN calls : \A k \in DOMAIN calls[j] : calls[j][k] = 1
            /\ Len(Chain(calls, 1)) = PartNum(cpus)
            /\ Len(output) = Cardinality(SatParts)
            /\ \A k \in SatParts :
                 output[Cardinality({j \in SatParts : j <= k})]
                   = Dict(oracle[k][1], oracle[k][2])

\* a search with two workers has returned; one range was unknown, others were
\* unsatisfiable, and two or more satisfiable ranges gave their candidates
C10_Witness ==
    /\ pc = "done"
    /\ cpus >= 2
    /\ timeouts # {}
    /\ Cardinality(SatParts) >= 2
    /\ Cardinality(SatParts) < PartNum(cpus) - Cardinality(timeouts)
    /\ Len(output) = Cardinality(SatParts)

\* C4: for divisor 9 and width 8 the search returns at least one candidate
\* when the oracle decides every query; (57, 9) is a correct candidate.
C4_FindsCandidate ==
    (pc = "done" /\ div = 9 /\ bits = 8 /\ timeouts = {})
    => /\ Len(output) >= 1
       /\ Correct(57, 9, 9, 8)

====
